---- MODULE Spec2Model ----
(***************************************************************************)
(* Model of sol-meme-scanner (src/app.py): the DexScreener fetch and       *)
(* de-duplication, the hard filters, the momentum score, the RugCheck      *)
(* screen, the ranking, and the three consumers of the pipeline (the       *)
(* memescanner task loop, the !top command and the /candidates handler).   *)
(*                                                                         *)
(* Strings that the code inspects (verdicts, names, addresses, chain tags) *)
(* are sequences of one-character strings, so that lower-casing and        *)
(* substring search are computed and not assumed.                          *)
(***************************************************************************)
EXTENDS Integers, Sequences, FiniteSets, TLC

VARIABLES
    \* ---- rugcheck_ok applied to one oracle response
    rugResp,      \* the oracle's response to the GET
    rugOut,       \* "pending", or what rugcheck_ok did: "True", "False", "raise"
    \* ---- fetch_candidate_pairs
    fetchPc,      \* "keywords", "fallback", "done", "raised"
    qi,           \* number of keyword queries completed
    seen,         \* the set `seen`
    pairs,        \* the list `pairs`
    calls,        \* history: the queries issued to dex_query, in order
    offered,      \* history: every element dex_query handed back, in order
    returned,     \* history: the kind of value each dex_query call returned
    lenAtCheck,   \* history: len(pairs) when line 238 was evaluated (-1 before)
    \* ---- find_memecoin_candidates and its consumers, on concrete records
    rawPairs,     \* what fetch_candidate_pairs returned
    oracle,       \* how the RugCheck oracle answers during this run
    minHolders,   \* MIN_HOLDERS_HINT, as the environment sets it
    pipePc,       \* "fetched", "ranked", "handed"
    pipeOut,      \* the list find_memecoin_candidates returned
    handed,       \* what the consumer handed on
    consumer,     \* "none", "memescanner", "top", "candidates"
    reqLimit,     \* the consumer's n / limit
    \* ---- the task loop and the handlers as interleaved coroutines
    loopState,    \* "NotStarted", "Sleeping" (Idle), "Running", "Failed"
    pc,           \* position of each coroutine
    cands,        \* each coroutine's local `cands`
    arg,          \* each coroutine's n / limit
    idx,          \* !top: number of candidates already sent
    runId,        \* the pipeline run each coroutine is serving
    nextRun,      \* fresh run ids
    sinkLog,      \* the channel: every message sent, in order
    apiLog,       \* the HTTP responses of /candidates
    inflight,     \* number of memescanner bodies in progress
    cycle,        \* the current / last memescanner cycle
    skipped,      \* intervals that elapsed while the body was running
    readyCount    \* on_ready events so far

rugVars   == <<rugResp, rugOut>>
fetchVars == <<fetchPc, qi, seen, pairs, calls, offered, returned, lenAtCheck>>
pipeVars  == <<rawPairs, oracle, minHolders, pipePc, pipeOut, handed, consumer, reqLimit>>
schedVars == <<loopState, pc, cands, arg, idx, runId, nextRun, sinkLog, apiLog,
               inflight, cycle, skipped, readyCount>>
vars      == <<rugVars, fetchVars, pipeVars, schedVars>>

(***************************************************************************)
(* Text                                                                    *)
(***************************************************************************)
UpperCase == <<"A","B","C","D","E","F","G","H","I","J","K","L","M",
               "N","O","P","Q","R","S","T","U","V","W","X","Y","Z">>
LowerCase == <<"a","b","c","d","e","f","g","h","i","j","k","l","m",
               "n","o","p","q","r","s","t","u","v","w","x","y","z">>

\* str.lower() on one character
LowerChar(c) ==
    IF \E i \in 1..26 : UpperCase[i] = c
    THEN LowerCase[CHOOSE i \in 1..26 : UpperCase[i] = c]
    ELSE c

\* str.lower()
Lower(s) == [i \in 1..Len(s) |-> LowerChar(s[i])]

\* `w in s` on strings
Contains(s, w) ==
    \E i \in 0..(Len(s) - Len(w)) : SubSeq(s, i + 1, i + Len(w)) = w

\* DEFAULT_KEYWORDS, the value of KEYWORDS when the environment sets none
KEYWORDS ==
    <<
       <<"p", "e", "p", "e">>,
       <<"d", "o", "g", "e">>,
       <<"s", "h", "i", "b">>,
       <<"i", "n", "u">>,
       <<"c", "a", "t">>,
       <<"k", "i", "t", "t", "y">>,
       <<"w", "o", "j", "a", "k">>,
       <<"e", "l", "o", "n">>,
       <<"t", "r", "u", "m", "p">>,
       <<"4", "2", "0">>,
       <<"m", "o", "o", "n">>,
       <<"p", "u", "m", "p">>,
       <<"b", "a", "s", "e", "d">>,
       <<"t", "u", "r", "b", "o">>,
       <<"t", "o", "a", "d">>,
       <<"f", "r", "o", "g">>,
       <<"b", "o", "n", "k">>,
       <<"m", "e", "m", "e">>,
       <<"w", "a", "g", "m", "i">>,
       <<"l", "a", "m", "b", "o">>,
       <<"p", "o", "n", "k", "e">>,
       <<"p", "i", "p", "p", "i", "n">>,
       <<"g", "i", "g", "a">>,
       <<"r", "e", "k", "t">>,
       <<"g", "m", "e">>,
       <<"w", "a", "l", "l", "s", "t", "r", "e", "e", "t">>,
       <<"c", "o", "r", "g", "i">>,
       <<"p", "u", "d", "g", "y">>,
       <<"j", "i", "t", "o">>
    >>

\* MEME_RE.search(blob) with re.I: some keyword occurs, whatever the case
MemeReSearch(blob) ==
    \E k \in 1..Len(KEYWORDS) : Contains(Lower(blob), Lower(KEYWORDS[k]))

\* looks_like_meme(name, symbol)
looks_like_meme(name, symbol) == MemeReSearch(name \o <<" ">> \o symbol)

(***************************************************************************)
(* rugcheck_ok                                                             *)
(***************************************************************************)
\* Strings of the oracle's verdict field
S_honeypot  == <<"h","o","n","e","y","p","o","t">>
S_malicious == <<"m","a","l","i","c","i","o","u","s">>
S_scam      == <<"s","c","a","m">>

\* The words a verdict of the model is made of, as the oracle may spell them
VerdictWords ==
    { <<"h","o","n","e","y","p","o","t">>, <<"H","o","n","e","y","P","o","t">>,
      <<"H","O","N","E","Y","P","O","T">>, <<"h","o","n","e","y">>,
      <<"m","a","l","i","c","i","o","u","s">>, <<"M","A","L","I","C","I","O","U","S">>,
      <<"M","a","l","i","c","e">>,
      <<"s","c","a","m">>, <<"S","c","a","m">>, <<"S","C","A","M">>, <<"s","c","a"," ","m">>,
      <<"G","o","o","d">>, <<"D","a","n","g","e","r">>, <<>> }
VerdictPrefixes == { <<>>, <<"n","o","t"," ">>, <<"X">> }
VerdictSuffixes == { <<>>, <<"!">>, <<"m","e","r">> }

VerdictStrings ==
    { p \o w \o s : p \in VerdictPrefixes, w \in VerdictWords, s \in VerdictSuffixes }

\* The JSON value under "verdict": t is its JSON type, v its text when a string
VerdictValues ==
    { [t |-> "str", v |-> s] : s \in VerdictStrings }
    \cup { [t |-> k, v |-> <<>>] : k \in {"missing", "null", "number", "zero", "array", "object", "true", "false"} }

\* What the GET and r.json() can produce
OracleResponses ==
    { [transport |-> "ok", status |-> 200, body |-> "object", verdict |-> vv] : vv \in VerdictValues }
    \cup { [transport |-> "ok", status |-> 200, body |-> b, verdict |-> [t |-> "missing", v |-> <<>>]] :
             b \in {"undecodable", "array", "null", "string", "number"} }
    \cup { [transport |-> "ok", status |-> st, body |-> b, verdict |-> vv] :
             st \in {204, 404, 429, 500},
             b \in {"object", "undecodable"},
             vv \in { [t |-> "str", v |-> S_scam], [t |-> "missing", v |-> <<>>] } }
    \cup { [transport |-> tr, status |-> 0, body |-> "undecodable", verdict |-> [t |-> "missing", v |-> <<>>]] :
             tr \in {"timeout", "connection_error"} }

\* Python truthiness of a JSON value of the given type (an object or array of the
\* model is non-empty)
Truthy(val) ==
    CASE val.t \in {"missing", "null", "zero", "false"} -> FALSE
      [] val.t = "str" -> val.v # <<>>
      [] OTHER -> TRUE

\* Lines 111-118 without the except clause: "True", "False", or "raise" where the
\* statement raises
RugcheckTry(resp) ==
    IF resp.transport # "ok" THEN "raise"                     \* _http.get raises
    ELSE IF resp.status # 200 THEN "True"                     \* line 113
    ELSE IF resp.body = "undecodable" THEN "raise"            \* r.json() raises
    ELSE IF resp.body # "object" THEN "raise"                 \* data.get: AttributeError
    ELSE IF Truthy(resp.verdict) /\ resp.verdict.t # "str"
         THEN "raise"                                         \* .lower(): AttributeError
    ELSE LET verdict == IF Truthy(resp.verdict) THEN Lower(resp.verdict.v) ELSE <<>>
         IN  IF \/ Contains(verdict, S_honeypot)
                \/ Contains(verdict, S_malicious)
                \/ Contains(verdict, S_scam)
             THEN "False"
             ELSE "True"

\* The same with no except clause: an exception of the body reaches the caller
RugcheckOkNoExcept(resp) == RugcheckTry(resp)

\* rugcheck_ok: `except Exception: return True`
rugcheck_ok(resp) ==
    IF RugcheckTry(resp) = "raise" THEN "True" ELSE RugcheckTry(resp)

RugCall ==
    /\ rugOut = "pending"
    /\ rugOut' = rugcheck_ok(rugResp)
    /\ UNCHANGED <<rugResp, fetchVars, pipeVars, schedVars>>

\* the next token is screened: another response
RugNext ==
    /\ rugOut # "pending"
    /\ rugResp' \in OracleResponses
    /\ rugOut' = "pending"
    /\ UNCHANGED <<fetchVars, pipeVars, schedVars>>

(***************************************************************************)
(* dex_query and fetch_candidate_pairs                                     *)
(***************************************************************************)
KeywordCap == 10      \* KEYWORDS[:10]
MinPairs   == 30      \* if len(pairs) < 30
BulkSize   == 3       \* records in a full page of the model's provider

Digits   == <<"1","2","3","4","5","6","7","8","9">>
S_solana == <<"s","o","l","a","n","a">>
S_Solana == <<"S","o","l","a","n","a">>
S_eth    == <<"e","t","h","e","r","e","u","m">>

EmptyList == [t |-> "list", items |-> <<>>]

\* One element of a "pairs" value. obj: it is a JSON object; addr: the text of
\* baseToken.address ("" when any part of the path is absent); chain: the JSON
\* value under "chain"; src, k: which query returned it and where (its identity).
Pair(addr, chain, q, k) ==
    [obj |-> TRUE, addr |-> addr, chain |-> [t |-> "str", v |-> chain], src |-> q, k |-> k]
NoAddress(q, k) ==
    [obj |-> TRUE, addr |-> <<>>, chain |-> [t |-> "str", v |-> S_solana], src |-> q, k |-> k]
NoChain(addr, q, k) ==
    [obj |-> TRUE, addr |-> addr, chain |-> [t |-> "missing", v |-> <<>>], src |-> q, k |-> k]
NumberChain(addr, q, k) ==
    [obj |-> TRUE, addr |-> addr, chain |-> [t |-> "number", v |-> <<>>], src |-> q, k |-> k]
NotAnObject(q, k) ==
    [obj |-> FALSE, addr |-> <<>>, chain |-> [t |-> "missing", v |-> <<>>], src |-> q, k |-> k]

\* The letter the model's provider uses for the addresses of query q (11: fallback)
Letter(q) == LowerCase[q]

\* A full page: BulkSize fresh Solana records, the chain tag in either spelling
BulkItems(q) ==
    [k \in 1..BulkSize |->
        Pair(<<Letter(q), Digits[k]>>, IF k % 2 = 0 THEN S_Solana ELSE S_solana, q, k)]

\* A page that repeats earlier addresses: the first address of query 1 again, the
\* same address in upper case, an address first listed on another chain and then
\* on Solana, the same once more, and two records fetch cannot use
MixItems(q) ==
    << Pair(<<"a", "1">>, S_solana, q, 1),
       Pair(<<"A", "1">>, S_solana, q, 2),
       Pair(<<Letter(q), "9">>, S_eth, q, 3),
       Pair(<<Letter(q), "9">>, S_Solana, q, 4),
       Pair(<<Letter(q), "9">>, S_solana, q, 5),
       NoChain(<<Letter(q), "8">>, q, 6),
       NoAddress(q, 7),
       NotAnObject(q, 8) >>

\* A page whose second record carries a number under "chain"
BadChainItems(q) ==
    << Pair(<<Letter(q), "7">>, S_solana, q, 1), NumberChain(<<Letter(q), "6">>, q, 2) >>

Http(transport, status, body, pairsT, items) ==
    [transport |-> transport, status |-> status, body |-> body,
     pairs |-> [t |-> pairsT, items |-> items]]

\* Responses without usable records
FailResponses ==
    { Http("timeout", 0, "undecodable", "missing", <<>>),
      Http("ok", 500, "object", "missing", <<>>),
      Http("ok", 200, "undecodable", "missing", <<>>),
      Http("ok", 200, "array", "missing", <<>>),
      Http("ok", 200, "object", "missing", <<>>),
      Http("ok", 200, "object", "null", <<>>),
      Http("ok", 200, "object", "list", <<>>) }

\* "pairs" is not a list of objects
MalformedResponses(q) ==
    { Http("ok", 200, "object", "number", <<>>),
      Http("ok", 200, "object", "string", <<NotAnObject(q, 1), NotAnObject(q, 2)>>),
      Http("ok", 200, "object", "list", BadChainItems(q)) }

\* The queries whose responses may be a page of repeats
MixQueries == {2, 3, KeywordCap + 1}

Responses(q) ==
    FailResponses
    \cup MalformedResponses(q)
    \cup { Http("ok", 200, "object", "list", BulkItems(q)) }
    \cup IF q \in MixQueries THEN { Http("ok", 200, "object", "list", MixItems(q)) } ELSE {}

\* Python truthiness of the value under "pairs"
PairsTruthy(p) ==
    CASE p.t \in {"missing", "null"} -> FALSE
      [] p.t \in {"list", "string"} -> p.items # <<>>
      [] OTHER -> TRUE

\* Lines 206-210 without the except clause: the value returned, or "raise"
DexQueryTry(resp) ==
    IF resp.transport # "ok" THEN [t |-> "raise", items |-> <<>>]
    ELSE IF resp.status # 200 THEN EmptyList
    ELSE IF resp.body = "undecodable" THEN [t |-> "raise", items |-> <<>>]
    ELSE IF resp.body # "object" THEN [t |-> "raise", items |-> <<>>]   \* data.get
    ELSE IF PairsTruthy(resp.pairs) THEN resp.pairs ELSE EmptyList

\* dex_query: `except Exception: return []`
dex_query(resp) ==
    IF DexQueryTry(resp).t = "raise" THEN EmptyList ELSE DexQueryTry(resp)

\* for p in found: a list yields its elements, a string its characters; a number
\* is not iterable
Iterable(found) == found.t \in {"list", "string"}

\* safe_get(p, "baseToken", "address", default="")
safe_get_address(p) == IF p.obj THEN p.addr ELSE <<>>

\* `base_addr in seen` with no memory of what was seen
AlreadySeenNever(base_addr, s) == FALSE

\* `base_addr in seen`
AlreadySeen(base_addr, s) == base_addr \in s

\* (p.get("chain") or "").lower() raises when the value is truthy and no string
ChainRaises(p) == p.chain.t \notin {"str", "missing", "null"}

\* (p.get("chain") or "").lower()
ChainLower(p) == IF p.chain.t = "str" THEN Lower(p.chain.v) ELSE <<>>

\* The loop body of lines 228-235 (and 240-247) over `found`
RECURSIVE MergeFound(_, _, _)
MergeFound(found, s, ps) ==
    IF found = <<>> THEN [seen |-> s, pairs |-> ps, raised |-> FALSE]
    ELSE LET p == Head(found)
             base_addr == safe_get_address(p)
         IN  IF base_addr = <<>> \/ AlreadySeen(base_addr, s)
             THEN MergeFound(Tail(found), s, ps)
             ELSE IF ChainRaises(p)
             THEN [seen |-> s, pairs |-> ps, raised |-> TRUE]
             ELSE IF ChainLower(p) # S_solana
             THEN MergeFound(Tail(found), s, ps)
             ELSE MergeFound(Tail(found), s \cup {base_addr}, Append(ps, p))

\* One query and the loop over what it returned
Absorb(found, s, ps) ==
    IF Iterable(found) THEN MergeFound(found.items, s, ps)
    ELSE [seen |-> s, pairs |-> ps, raised |-> TRUE]

\* The records dex_query handed back that carry an address
Addressed(items) == SelectSeq(items, LAMBDA e : e.obj /\ e.addr # <<>>)

\* line 238, always true
FallbackNeededAlways(ps) == TRUE

\* line 238
FallbackNeeded(ps) == Len(ps) < MinPairs

\* lines 226-235: the next keyword query
FetchKeyword ==
    /\ fetchPc = "keywords"
    /\ qi < KeywordCap
    /\ \E resp \in Responses(qi + 1) :
         LET found == dex_query(resp)
             m     == Absorb(found, seen, pairs)
         IN  /\ calls' = Append(calls, "keyword")
             /\ returned' = found.t
             /\ offered' = offered \o Addressed(found.items)
             /\ qi' = qi + 1
             /\ IF m.raised
                THEN /\ fetchPc' = "raised"
                     /\ UNCHANGED <<seen, pairs>>
                ELSE /\ fetchPc' = IF qi + 1 = KeywordCap THEN "fallback" ELSE "keywords"
                     /\ seen' = m.seen
                     /\ pairs' = m.pairs
    /\ UNCHANGED <<lenAtCheck, rugVars, pipeVars, schedVars>>

\* lines 238-249: the fallback, when line 238 asks for it
FetchFallback ==
    /\ fetchPc = "fallback"
    /\ lenAtCheck' = Len(pairs)
    /\ IF FallbackNeeded(pairs)
       THEN \E resp \in Responses(KeywordCap + 1) :
              LET found == dex_query(resp)
                  m     == Absorb(found, seen, pairs)
              IN  /\ calls' = Append(calls, "fallback")
                  /\ returned' = found.t
                  /\ offered' = offered \o Addressed(found.items)
                  /\ IF m.raised
                     THEN /\ fetchPc' = "raised"
                          /\ UNCHANGED <<seen, pairs>>
                     ELSE /\ fetchPc' = "done"
                          /\ seen' = m.seen
                          /\ pairs' = m.pairs
       ELSE /\ fetchPc' = "done"
            /\ UNCHANGED <<seen, pairs, calls, returned, offered>>
    /\ UNCHANGED <<qi, rugVars, pipeVars, schedVars>>

(***************************************************************************)
(* passes_hard_filters, memecoin_score, find_memecoin_candidates           *)
(***************************************************************************)
\* Thresholds, at the defaults of lines 44-52
MAX_TOKEN_AGE_MINUTES == 360
MAX_FDV               == 8000000
MAX_LIQ_USD           == 300000
MIN_LIQ_USD           == 1000
MIN_BSR_NUM           == 3       \* MIN_BUY_SELL_RATIO_5M = 1.5 = 3 / 2
MIN_BSR_DEN           == 2
MIN_TXNS_5M           == 20
MIN_VOLUME_5M         == 2000
SCORE_THRESHOLD       == 40

\* now_ms(): the clock of the model, in ms since the model's epoch
NowMs == 500 * 60000

Max(a, b) == IF a >= b THEN a ELSE b
Min(a, b) == IF a <= b THEN a ELSE b

\* round(n / d) to the nearest integer, ties to even
RoundDiv(n, d) ==
    LET q == n \div d
        r == n % d
    IN  IF 2 * r < d THEN q
        ELSE IF 2 * r > d THEN q + 1
        ELSE IF q % 2 = 0 THEN q ELSE q + 1

\* memecoin_score(pair) in hundredths: round(score, 2) * 100. The sum is taken
\* over the common denominator max(1, sells5) * 10000.
memecoin_score(pair) ==
    LET m     == Max(1, pair.sells)
        bonus == IF MIN_LIQ_USD <= pair.liq /\ pair.liq <= MAX_LIQ_USD THEN 8 ELSE 0
        n     == 25 * 1000000 * Max(0, pair.buys - m)
                 + m * ( 4000 * Min(pair.vol5, 5 * 2000)
                       + 600 * Min(pair.vol1h, 5 * 10000)
                       + 300000 * Max(0, pair.pc5)
                       + 150000 * Max(0, pair.pc1h)
                       + 1000000 * bonus
                       - Max(0, pair.fdv - MAX_FDV) )
    IN  RoundDiv(n, m * 10000)

\* passes_hard_filters with the FDV test of line 172 left out
passes_hard_filters_no_fdv(pair, hint) ==
    /\ pair.created # 0
    /\ ~ (NowMs - pair.created > MAX_TOKEN_AGE_MINUTES * 60000)
    /\ ~ (pair.liq < MIN_LIQ_USD \/ pair.liq > MAX_LIQ_USD)
    /\ ~ (pair.buys + pair.sells < MIN_TXNS_5M)
    /\ ~ (pair.buys * MIN_BSR_DEN < MIN_BSR_NUM * Max(1, pair.sells))
    /\ ~ (pair.vol5 < MIN_VOLUME_5M)
    /\ ~ (hint # 0 /\ pair.holders < hint)
    /\ looks_like_meme(pair.name, pair.symbol)

\* passes_hard_filters(pair), with MIN_HOLDERS_HINT = hint
passes_hard_filters(pair, hint) ==
    IF pair.created = 0 THEN FALSE                                         \* 161
    ELSE IF NowMs - pair.created > MAX_TOKEN_AGE_MINUTES * 60000 THEN FALSE \* 164
    ELSE IF pair.liq < MIN_LIQ_USD \/ pair.liq > MAX_LIQ_USD THEN FALSE     \* 168
    ELSE IF pair.fdv <= 0 \/ pair.fdv > MAX_FDV THEN FALSE                  \* 172
    ELSE IF pair.buys + pair.sells < MIN_TXNS_5M THEN FALSE                 \* 183
    ELSE IF pair.buys * MIN_BSR_DEN < MIN_BSR_NUM * Max(1, pair.sells)
         THEN FALSE                                                        \* 185
    ELSE IF pair.vol5 < MIN_VOLUME_5M THEN FALSE                            \* 187
    ELSE IF hint # 0 /\ pair.holders < hint THEN FALSE                      \* 192
    ELSE looks_like_meme(pair.name, pair.symbol)                           \* 197

\* The Candidate dict of lines 282-295 (age, price, url and links are text that
\* nothing downstream reads back)
Candidate(p) ==
    [mint |-> p.mint, name |-> p.name, symbol |-> p.symbol,
     score |-> memecoin_score(p), liq_usd |-> p.liq, fdv |-> p.fdv, vol5 |-> p.vol5,
     bsr5 |-> RoundDiv(100 * p.buys, Max(1, p.sells))]

\* list.sort(key=score, reverse=True): stable, descending
RECURSIVE InsertDesc(_, _)
InsertDesc(sorted, c) ==
    IF sorted = <<>> THEN <<c>>
    ELSE IF Head(sorted).score >= c.score
         THEN <<Head(sorted)>> \o InsertDesc(Tail(sorted), c)
         ELSE <<c>> \o sorted

RECURSIVE SortDesc(_)
SortDesc(out) ==
    IF out = <<>> THEN <<>>
    ELSE InsertDesc(SortDesc(SubSeq(out, 1, Len(out) - 1)), out[Len(out)])

\* The RugCheck response for a mint under the oracle behaviour o
OracleAnswer(o, mint) ==
    IF o.down
    THEN [transport |-> "ok", status |-> 500, body |-> "undecodable",
          verdict |-> [t |-> "missing", v |-> <<>>]]
    ELSE IF mint \in o.flagged
    THEN [transport |-> "ok", status |-> 200, body |-> "object",
          verdict |-> [t |-> "str", v |-> <<"S","c","a","m"," ","t","o","k","e","n">>]]
    ELSE [transport |-> "ok", status |-> 200, body |-> "object",
          verdict |-> [t |-> "str", v |-> <<"G","o","o","d">>]]

\* lines 258-295: the loop over `filtered`
Enrich(filtered, o) ==
    LET keep(p) == /\ p.mint # <<>>                                   \* 261
                   /\ rugcheck_ok(OracleAnswer(o, p.mint)) = "True"   \* 263
                   /\ ~ (memecoin_score(p) < SCORE_THRESHOLD * 100)   \* 266
        kept    == SelectSeq(filtered, keep)
    IN  [i \in 1..Len(kept) |-> Candidate(kept[i])]

\* find_memecoin_candidates without line 297
find_memecoin_candidates_unsorted(raw, o, hint) ==
    Enrich(SelectSeq(raw, LAMBDA p : passes_hard_filters(p, hint)), o)

\* find_memecoin_candidates(), given what fetch_candidate_pairs returned
find_memecoin_candidates(raw, o, hint) ==
    SortDesc(Enrich(SelectSeq(raw, LAMBDA p : passes_hard_filters(p, hint)), o))

\* cands[:k]
SliceTo(s, k) ==
    IF k >= 0 THEN SubSeq(s, 1, Min(k, Len(s)))
    ELSE SubSeq(s, 1, Max(0, Len(s) + k))

\* line 324: cands[:max(1, n)]
TopSlice(cs, n) == SliceTo(cs, Max(1, n))

\* line 369: cands[:limit]
ApiSlice(cs, limit) == SliceTo(cs, limit)

\* every candidate posted, not only the first
SchedSliceAll(cs) == cs

\* lines 350-354: nothing when empty, else cands[0]
SchedSlice(cs) == IF cs = <<>> THEN <<>> ELSE <<cs[1]>>

(***************************************************************************)
(* The pipeline on concrete records                                        *)
(***************************************************************************)
MaxPairs == 2         \* longest list fetch_candidate_pairs returns in the model

S_DOGE_MOON == <<"D","O","G","E"," ","M","O","O","N">>
S_DM        == <<"D","M">>
S_Pepe      == <<"P","e","p","e">>
S_PP        == <<"P","P">>
S_Rocket    == <<"R","o","c","k","e","t">>
S_BONK      == <<"B","O","N","K">>
S_Stable    == <<"S","t","a","b","l","e">>
S_USD       == <<"U","S","D">>

\* The record of section 8 of the specification: passes every filter, score 145.00
BasePair ==
    [mint |-> <<"M","a">>, name |-> S_DOGE_MOON, symbol |-> S_DM,
     created |-> NowMs - 10 * 60000, liq |-> 50000, fdv |-> 1000000,
     buys |-> 30, sells |-> 5, vol5 |-> 3000, vol1h |-> 0, pc5 |-> 0, pc1h |-> 0,
     holders |-> 100]

\* The records the provider of the model lists: four that pass with different
\* scores (two of them tied), one exactly at the score threshold, one on the age
\* limit, and one failing each filter
PairList ==
    << BasePair,
       [BasePair EXCEPT !.name = S_Pepe, !.symbol = S_PP],
       [BasePair EXCEPT !.name = S_Rocket, !.symbol = S_BONK, !.buys = 20, !.sells = 7,
                        !.vol5 = 5000, !.vol1h = 20000, !.pc5 = 10, !.pc1h = -5],
       [BasePair EXCEPT !.buys = 15, !.sells = 10, !.vol5 = 2000],
       [BasePair EXCEPT !.buys = 15, !.sells = 10, !.vol5 = 2250, !.pc5 = 30, !.pc1h = 10],
       [BasePair EXCEPT !.created = NowMs - MAX_TOKEN_AGE_MINUTES * 60000],
       [BasePair EXCEPT !.created = NowMs - (MAX_TOKEN_AGE_MINUTES * 60000 + 1)],
       [BasePair EXCEPT !.created = 0],
       [BasePair EXCEPT !.liq = 500],
       [BasePair EXCEPT !.liq = 400000],
       [BasePair EXCEPT !.fdv = 0],
       [BasePair EXCEPT !.fdv = 9000000],
       [BasePair EXCEPT !.buys = 12, !.sells = 2],
       [BasePair EXCEPT !.buys = 14, !.sells = 10],
       [BasePair EXCEPT !.vol5 = 1000],
       [BasePair EXCEPT !.holders = 10],
       [BasePair EXCEPT !.name = S_Stable, !.symbol = S_USD] >>

\* Each with its own mint, as after de-duplication
PairSet == { [PairList[i] EXCEPT !.mint = <<"M", LowerCase[i]>>] : i \in 1..Len(PairList) }

\* Lists of distinct records, up to MaxPairs long
RECURSIVE RawLists(_)
RawLists(n) ==
    IF n = 0 THEN { <<>> }
    ELSE LET shorter == RawLists(n - 1)
         IN  shorter \cup
             { Append(l, p) : l \in { x \in shorter : Len(x) = n - 1 },
                              p \in PairSet }

DistinctMints(l) == \A i, j \in 1..Len(l) : i # j => l[i].mint # l[j].mint

\* How the oracle behaves during one run: it flags some mints, or it is down
OracleBehaviours ==
    { [down |-> FALSE, flagged |-> {}],
      [down |-> FALSE, flagged |-> { <<"M","a">>, <<"M","c">> }],
      [down |-> TRUE,  flagged |-> { <<"M","a">>, <<"M","c">> }] }

HolderHints == {0, 50}
TopArgs     == {0, 2}      \* !top 0, !top 2
ApiLimits   == {-1, 0, 1}  \* /candidates?limit=

\* await find_memecoin_candidates()
PipeRun ==
    /\ pipePc = "fetched"
    /\ pipeOut' = find_memecoin_candidates(rawPairs, oracle, minHolders)
    /\ pipePc' = "ranked"
    /\ UNCHANGED <<rawPairs, oracle, minHolders, handed, consumer, reqLimit>>
    /\ UNCHANGED <<rugVars, fetchVars, schedVars>>

\* memescanner, lines 349-354
PipeMemescanner ==
    /\ pipePc = "ranked"
    /\ consumer' = "memescanner"
    /\ reqLimit' = 1
    /\ handed' = SchedSlice(pipeOut)
    /\ pipePc' = "handed"
    /\ UNCHANGED <<rawPairs, oracle, minHolders, pipeOut>>
    /\ UNCHANGED <<rugVars, fetchVars, schedVars>>

\* top, lines 320-325
PipeTop ==
    /\ pipePc = "ranked"
    /\ \E n \in TopArgs :
         /\ reqLimit' = n
         /\ handed' = IF pipeOut = <<>> THEN <<>> ELSE TopSlice(pipeOut, n)
    /\ consumer' = "top"
    /\ pipePc' = "handed"
    /\ UNCHANGED <<rawPairs, oracle, minHolders, pipeOut>>
    /\ UNCHANGED <<rugVars, fetchVars, schedVars>>

\* candidates, lines 368-369
PipeCandidates ==
    /\ pipePc = "ranked"
    /\ \E limit \in ApiLimits :
         /\ reqLimit' = limit
         /\ handed' = ApiSlice(pipeOut, limit)
    /\ consumer' = "candidates"
    /\ pipePc' = "handed"
    /\ UNCHANGED <<rawPairs, oracle, minHolders, pipeOut>>
    /\ UNCHANGED <<rugVars, fetchVars, schedVars>>

(***************************************************************************)
(* The task loop, the command and the API handler as coroutines            *)
(***************************************************************************)
MaxRuns  == 2         \* pipeline runs in one behaviour
MaxCands == 2         \* longest candidate list a run returns
MaxSkip  == 1         \* intervals counted while one body runs
MaxReady == 2         \* on_ready events (the first, and reconnects)

M == "memescanner"
T == "top"
A == "candidates"
Procs == {M, T, A}

\* What find_memecoin_candidates may return to run r: a ranked list, here of
\* (run, rank) tags
RunOutputs(r) == { [k \in 1..n |-> [run |-> r, rank |-> k]] : n \in 0..MaxCands }

\* One message on the channel
Msg(src, kind, c) == [src |-> src, kind |-> kind, run |-> c.run, rank |-> c.rank]

\* channel.send(format_candidate_msg(c)) for each c of cs, in order
Posts(src, cs) == [i \in 1..Len(cs) |-> Msg(src, "candidate", cs[i])]

\* The loop's state after the body raised with no except clause around it
AfterExceptionUncaught == "Failed"

\* lines 356-357: the exception is printed, the body returns, the loop goes on
AfterException == "Sleeping"

\* memescanner.start() whether or not the loop is already running
OnReadyStartsAgain ==
    /\ readyCount < MaxReady
    /\ readyCount' = readyCount + 1
    /\ loopState' = "Sleeping"
    /\ UNCHANGED <<pc, cands, arg, idx, runId, nextRun, sinkLog, apiLog, inflight,
                   cycle, skipped>>
    /\ UNCHANGED <<rugVars, fetchVars, pipeVars>>

\* on_ready: Loop.start() raises RuntimeError when its task exists and is not
\* done; on_ready swallows it
OnReady ==
    /\ readyCount < MaxReady
    /\ readyCount' = readyCount + 1
    /\ loopState' = IF loopState \in {"NotStarted", "Failed"} THEN "Sleeping" ELSE loopState
    /\ UNCHANGED <<pc, cands, arg, idx, runId, nextRun, sinkLog, apiLog, inflight,
                   cycle, skipped>>
    /\ UNCHANGED <<rugVars, fetchVars, pipeVars>>

\* The body returns (or its exception was handled): the loop sleeps again
EndCycle(outcome, len, state) ==
    /\ loopState' = state
    /\ inflight' = inflight - 1
    /\ pc' = [pc EXCEPT ![M] = "idle"]
    /\ cycle' = [cycle EXCEPT !.outcome = outcome, !.len = len]
    /\ skipped' = 0

\* The interval elapsed and the loop is sleeping: the body starts (lines 341-347)
SchedTick ==
    /\ loopState = "Sleeping"
    /\ nextRun <= MaxRuns
    /\ \/ /\ cycle' = [run |-> 0, len |-> -1, outcome |-> "no_channel",
                      prev |-> cycle.outcome]                          \* line 347
          /\ UNCHANGED <<loopState, pc, runId, nextRun, inflight>>
       \/ /\ loopState' = "Running"
          /\ pc' = [pc EXCEPT ![M] = "find"]
          /\ runId' = [runId EXCEPT ![M] = nextRun]
          /\ nextRun' = nextRun + 1
          /\ inflight' = inflight + 1
          /\ cycle' = [run |-> nextRun, len |-> -1, outcome |-> "running",
                      prev |-> cycle.outcome]
    /\ UNCHANGED <<cands, arg, idx, sinkLog, apiLog, skipped, readyCount>>
    /\ UNCHANGED <<rugVars, fetchVars, pipeVars>>

\* The interval elapsed while the body is still running: the loop is inside
\* `await self.coro()` and starts nothing
SchedTickSkipped ==
    /\ loopState = "Running"
    /\ skipped < MaxSkip
    /\ skipped' = skipped + 1
    /\ UNCHANGED <<loopState, pc, cands, arg, idx, runId, nextRun, sinkLog, apiLog,
                   inflight, cycle, readyCount>>
    /\ UNCHANGED <<rugVars, fetchVars, pipeVars>>

\* line 349 returns or raises; lines 350-352
SchedFind ==
    /\ pc[M] = "find"
    /\ \/ /\ EndCycle("error", -1, AfterException)
          /\ UNCHANGED cands
       \/ \E out \in RunOutputs(runId[M]) :
            /\ cands' = [cands EXCEPT ![M] = out]
            /\ IF out = <<>>
               THEN EndCycle("empty", 0, "Sleeping")
               ELSE /\ pc' = [pc EXCEPT ![M] = "send"]
                    /\ cycle' = [cycle EXCEPT !.len = Len(out)]
                    /\ UNCHANGED <<loopState, inflight, skipped>>
    /\ UNCHANGED <<arg, idx, runId, nextRun, sinkLog, apiLog, readyCount>>
    /\ UNCHANGED <<rugVars, fetchVars, pipeVars>>

\* lines 353-355: channel.send returns or raises
SchedSend ==
    /\ pc[M] = "send"
    /\ \/ /\ sinkLog' = sinkLog \o Posts(M, SchedSlice(cands[M]))
          /\ EndCycle("posted", Len(cands[M]), "Sleeping")
       \/ /\ EndCycle("error", Len(cands[M]), AfterException)
          /\ UNCHANGED sinkLog
    /\ UNCHANGED <<cands, arg, idx, runId, nextRun, apiLog, readyCount>>
    /\ UNCHANGED <<rugVars, fetchVars, pipeVars>>

\* !top n arrives: line 319
TopInvoke ==
    /\ pc[T] = "idle"
    /\ nextRun <= MaxRuns
    /\ \E n \in TopArgs : arg' = [arg EXCEPT ![T] = n]
    /\ runId' = [runId EXCEPT ![T] = nextRun]
    /\ nextRun' = nextRun + 1
    /\ cands' = [cands EXCEPT ![T] = <<>>]
    /\ idx' = 0
    /\ sinkLog' = Append(sinkLog, Msg(T, "scanning", [run |-> nextRun, rank |-> 0]))
    /\ pc' = [pc EXCEPT ![T] = "find"]
    /\ UNCHANGED <<loopState, apiLog, inflight, cycle, skipped, readyCount>>
    /\ UNCHANGED <<rugVars, fetchVars, pipeVars>>

\* line 320 returns or raises; line 321
TopFind ==
    /\ pc[T] = "find"
    /\ \/ /\ pc' = [pc EXCEPT ![T] = "idle"]      \* the command fails
          /\ UNCHANGED cands
       \/ \E out \in RunOutputs(runId[T]) :
            /\ cands' = [cands EXCEPT ![T] = out]
            /\ pc' = [pc EXCEPT ![T] = IF out = <<>> THEN "none" ELSE "send"]
    /\ UNCHANGED <<loopState, arg, idx, runId, nextRun, sinkLog, apiLog, inflight,
                   cycle, skipped, readyCount>>
    /\ UNCHANGED <<rugVars, fetchVars, pipeVars>>

\* line 322
TopSendNone ==
    /\ pc[T] = "none"
    /\ sinkLog' = Append(sinkLog, Msg(T, "none", [run |-> runId[T], rank |-> 0]))
    /\ pc' = [pc EXCEPT ![T] = "idle"]
    /\ UNCHANGED <<loopState, cands, arg, idx, runId, nextRun, apiLog, inflight,
                   cycle, skipped, readyCount>>
    /\ UNCHANGED <<rugVars, fetchVars, pipeVars>>

\* lines 324-325: one iteration, one await ctx.send; it returns or raises
TopSend ==
    /\ pc[T] = "send"
    /\ LET slice == TopSlice(cands[T], arg[T])
       IN  \/ /\ sinkLog' = Append(sinkLog, Msg(T, "candidate", slice[idx + 1]))
              /\ idx' = idx + 1
              /\ pc' = [pc EXCEPT ![T] = IF idx + 1 = Len(slice) THEN "idle" ELSE "send"]
           \/ /\ pc' = [pc EXCEPT ![T] = "idle"]  \* the command fails
              /\ UNCHANGED <<sinkLog, idx>>
    /\ UNCHANGED <<loopState, cands, arg, runId, nextRun, apiLog, inflight,
                   cycle, skipped, readyCount>>
    /\ UNCHANGED <<rugVars, fetchVars, pipeVars>>

\* GET /candidates?limit= arrives
ApiInvoke ==
    /\ pc[A] = "idle"
    /\ nextRun <= MaxRuns
    /\ \E limit \in ApiLimits : arg' = [arg EXCEPT ![A] = limit]
    /\ runId' = [runId EXCEPT ![A] = nextRun]
    /\ nextRun' = nextRun + 1
    /\ pc' = [pc EXCEPT ![A] = "find"]
    /\ UNCHANGED <<loopState, cands, idx, sinkLog, apiLog, inflight, cycle, skipped,
                   readyCount>>
    /\ UNCHANGED <<rugVars, fetchVars, pipeVars>>

\* lines 368-369: the run returns and the response is built, or the run raises
ApiFind ==
    /\ pc[A] = "find"
    /\ \/ /\ apiLog' = Append(apiLog, [run |-> runId[A], status |-> 500, candidates |-> <<>>])
          /\ UNCHANGED cands
       \/ \E out \in RunOutputs(runId[A]) :
            /\ cands' = [cands EXCEPT ![A] = out]
            /\ apiLog' = Append(apiLog, [run |-> runId[A], status |-> 200,
                                         candidates |-> ApiSlice(out, arg[A])])
    /\ pc' = [pc EXCEPT ![A] = "idle"]
    /\ UNCHANGED <<loopState, arg, idx, runId, nextRun, sinkLog, inflight, cycle,
                   skipped, readyCount>>
    /\ UNCHANGED <<rugVars, fetchVars, pipeVars>>

(***************************************************************************)
(* Specifications                                                          *)
(***************************************************************************)
RugIdle ==
    /\ rugResp = [transport |-> "ok", status |-> 200, body |-> "object",
                  verdict |-> [t |-> "missing", v |-> <<>>]]
    /\ rugOut = "idle"

FetchIdle ==
    /\ fetchPc = "idle"
    /\ qi = 0
    /\ seen = {}
    /\ pairs = <<>>
    /\ calls = <<>>
    /\ offered = <<>>
    /\ returned = "none"
    /\ lenAtCheck = -1

PipeIdle ==
    /\ rawPairs = <<>>
    /\ oracle = [down |-> FALSE, flagged |-> {}]
    /\ minHolders = 0
    /\ pipePc = "idle"
    /\ pipeOut = <<>>
    /\ handed = <<>>
    /\ consumer = "none"
    /\ reqLimit = 0

\* The process after main() created the session and before the bot is ready
SchedInit ==
    /\ loopState = "NotStarted"
    /\ pc = [p \in Procs |-> "idle"]
    /\ cands = [p \in Procs |-> <<>>]
    /\ arg = [p \in Procs |-> 0]
    /\ idx = 0
    /\ runId = [p \in Procs |-> 0]
    /\ nextRun = 1
    /\ sinkLog = <<>>
    /\ apiLog = <<>>
    /\ inflight = 0
    /\ cycle = [run |-> 0, len |-> -1, outcome |-> "none", prev |-> "none"]
    /\ skipped = 0
    /\ readyCount = 0

\* rugcheck_ok on every oracle response of the model
InitRug ==
    /\ rugResp \in OracleResponses
    /\ rugOut = "pending"
    /\ FetchIdle /\ PipeIdle /\ SchedInit
NextRug == RugCall \/ RugNext
SpecRug == InitRug /\ [][NextRug]_vars

\* fetch_candidate_pairs: lines 222-223
InitFetch ==
    /\ fetchPc = "keywords"
    /\ qi = 0
    /\ seen = {}
    /\ pairs = <<>>
    /\ calls = <<>>
    /\ offered = <<>>
    /\ returned = "none"
    /\ lenAtCheck = -1
    /\ RugIdle /\ PipeIdle /\ SchedInit
NextFetch == FetchKeyword \/ FetchFallback
SpecFetch == InitFetch /\ [][NextFetch]_vars

\* find_memecoin_candidates and its three callers on the records of PairSet
InitPipe ==
    /\ rawPairs \in { l \in RawLists(MaxPairs) : DistinctMints(l) }
    /\ oracle \in OracleBehaviours
    /\ minHolders \in HolderHints
    /\ pipePc = "fetched"
    /\ pipeOut = <<>>
    /\ handed = <<>>
    /\ consumer = "none"
    /\ reqLimit = 0
    /\ RugIdle /\ FetchIdle /\ SchedInit
NextPipe == PipeRun \/ PipeMemescanner \/ PipeTop \/ PipeCandidates
SpecPipe == InitPipe /\ [][NextPipe]_vars

\* The bot: the task loop, !top and /candidates on one event loop
InitSched == SchedInit /\ RugIdle /\ FetchIdle /\ PipeIdle
NextSched ==
    \/ OnReady \/ SchedTick \/ SchedTickSkipped \/ SchedFind \/ SchedSend
    \/ TopInvoke \/ TopFind \/ TopSendNone \/ TopSend
    \/ ApiInvoke \/ ApiFind
SpecSched == InitSched /\ [][NextSched]_vars

(***************************************************************************)
(* Properties                                                              *)
(***************************************************************************)
\* Sink invocations the task loop made for run r
SchedDeliveries(r) ==
    Cardinality({ i \in DOMAIN sinkLog : sinkLog[i].src = M /\ sinkLog[i].run = r })

\* C1, as claimed: a cycle whose pipeline returned (a list, empty or not) has
\* delivered to the Sink exactly once when the loop is Idle again.
C1_DeliversExactlyOnce ==
    cycle.outcome \in {"empty", "posted"} => SchedDeliveries(cycle.run) = 1

\* C1, amended: a cycle invokes the Sink at most once; once, with the top-ranked
\* candidate alone, when the list is non-empty and the send succeeds; not at all
\* when the list is empty, the channel is not visible or a stage raised. After any
\* of these the loop is Idle.
C1_DeliversTopAtMostOnce ==
    /\ \A i, j \in DOMAIN sinkLog :
         (sinkLog[i].src = M /\ sinkLog[j].src = M /\ sinkLog[i].run = sinkLog[j].run)
            => i = j
    /\ \A i \in DOMAIN sinkLog :
         sinkLog[i].src = M => (sinkLog[i].kind = "candidate" /\ sinkLog[i].rank = 1)
    /\ cycle.outcome = "posted" => (cycle.len >= 1 /\ SchedDeliveries(cycle.run) = 1)
    /\ cycle.outcome = "empty" => (cycle.len = 0 /\ SchedDeliveries(cycle.run) = 0)
    /\ cycle.outcome \in {"error", "no_channel", "running"}
          => SchedDeliveries(cycle.run) = 0
    /\ cycle.outcome \in {"empty", "posted", "error", "no_channel"}
          => (loopState = "Sleeping" /\ inflight = 0)

\* C1 witness: a cycle returned an empty list and ended without a delivery
C1_EmptyCycleDone ==
    /\ cycle.outcome = "empty"
    /\ cycle.run >= 1
    /\ loopState = "Sleeping"
    /\ SchedDeliveries(cycle.run) = 0

C3_NoInterleaving ==
    \A i, j, k \in DOMAIN sinkLog :
        ( /\ i < j /\ j < k
          /\ sinkLog[i].kind = "candidate" /\ sinkLog[k].kind = "candidate"
          /\ sinkLog[i].run = sinkLog[k].run
          /\ sinkLog[j].kind = "candidate" )
        => sinkLog[j].run = sinkLog[i].run

\* C4: an exception of the pipeline or of the send never ends the loop: after a
\* failed cycle the loop is Idle, and a tick can start the next cycle (as long as
\* the model has run ids left).
C4_LoopSurvivesException ==
    /\ loopState # "Failed"
    /\ cycle.outcome = "error" => (loopState = "Sleeping" /\ inflight = 0 /\ pc[M] = "idle")
    /\ (cycle.outcome = "error" /\ nextRun <= MaxRuns) => ENABLED SchedTick

\* C4 witness: a cycle failed and the next tick started a new cycle
C4_CycleAfterFailure ==
    /\ cycle.prev = "error"
    /\ cycle.outcome = "running"
    /\ loopState = "Running"

FetchLive == fetchPc \in {"keywords", "fallback", "done"}

\* e is tagged with the Solana chain, in any spelling
OnSolana(e) == e.chain.t = "str" /\ Lower(e.chain.v) = S_solana

\* p is the first record dex_query handed back, in query order, among those of
\* the same case-normalized address
FirstOfNormalized(p) ==
    \E i \in DOMAIN offered :
        /\ offered[i] = p
        /\ \A j \in 1..(i - 1) : Lower(offered[j].addr) # Lower(p.addr)

\* p is the first record dex_query handed back, in query order, among those of
\* the same address that are tagged with the Solana chain
FirstOfExactOnSolana(p) ==
    \E i \in DOMAIN offered :
        /\ offered[i] = p
        /\ OnSolana(p)
        /\ \A j \in 1..(i - 1) : ~ (offered[j].addr = p.addr /\ OnSolana(offered[j]))

\* C5, as claimed: no two retained records have the same case-normalized address,
\* and each is the first record of that address in query order.
C5_UniqueNormalizedFirstWins ==
    FetchLive =>
      /\ \A i, j \in DOMAIN pairs :
           Lower(pairs[i].addr) = Lower(pairs[j].addr) => i = j
      /\ \A i \in DOMAIN pairs : FirstOfNormalized(pairs[i])

\* C5, amended: no two retained records have the same address as received (case
\* kept), and each is the first record of that address tagged with the Solana
\* chain in query order, so a keyword record is never replaced by a later one.
C5_UniqueExactFirstSolanaWins ==
    FetchLive =>
      /\ \A i, j \in DOMAIN pairs : pairs[i].addr = pairs[j].addr => i = j
      /\ \A i \in DOMAIN pairs : FirstOfExactOnSolana(pairs[i])

\* C5 witness: fetch is done; the fallback repeated an address of keyword query 1
\* and the keyword record was kept; the same address in upper case was kept too
C5_DuplicateOffered ==
    /\ fetchPc = "done"
    /\ \E i, j \in DOMAIN pairs :
         /\ pairs[i].addr = <<"a", "1">> /\ pairs[i].src = 1
         /\ pairs[j].addr = <<"A", "1">>
    /\ \E n \in DOMAIN offered :
         offered[n].addr = <<"a", "1">> /\ offered[n].src = KeywordCap + 1

\* A record of the provider, found by its mint
RawOf(mint) == CHOOSE p \in { rawPairs[i] : i \in DOMAIN rawPairs } : p.mint = mint

\* The hard filters as section 4.3 of the specification lists them
HardFilters(p, hint) ==
    /\ p.created # 0
    /\ NowMs - p.created <= MAX_TOKEN_AGE_MINUTES * 60000
    /\ MIN_LIQ_USD <= p.liq /\ p.liq <= MAX_LIQ_USD
    /\ 0 < p.fdv /\ p.fdv <= MAX_FDV
    /\ p.buys + p.sells >= MIN_TXNS_5M
    /\ MIN_BSR_DEN * p.buys >= MIN_BSR_NUM * (IF p.sells >= 1 THEN p.sells ELSE 1)
    /\ p.vol5 >= MIN_VOLUME_5M
    /\ hint > 0 => p.holders >= hint
    /\ \E k \in DOMAIN KEYWORDS :
         \E at \in 1..(Len(p.name) + 1 + Len(p.symbol)) :
            \A n \in 1..Len(KEYWORDS[k]) :
               /\ at + n - 1 <= Len(p.name) + 1 + Len(p.symbol)
               /\ LowerChar((p.name \o <<" ">> \o p.symbol)[at + n - 1])
                    = LowerChar(KEYWORDS[k][n])

\* C6: every candidate find_memecoin_candidates returns, and so every candidate
\* handed to a consumer, comes from a record that passes every hard filter, and
\* its score is at least SCORE_THRESHOLD.
C6_EmittedPassFiltersAndThreshold ==
    \A c \in { pipeOut[i] : i \in DOMAIN pipeOut } \cup { handed[i] : i \in DOMAIN handed } :
        /\ \E i \in DOMAIN rawPairs : rawPairs[i].mint = c.mint
        /\ HardFilters(RawOf(c.mint), minHolders)
        /\ c.score >= SCORE_THRESHOLD * 100

\* C6 witness: a run dropped a record and emitted another, which was handed on
C6_SomeEmittedSomeDropped ==
    /\ pipePc = "handed"
    /\ handed # <<>>
    /\ Len(pipeOut) < Len(rawPairs)

SortedDesc(s) == \A i, j \in DOMAIN s : i < j => s[i].score >= s[j].score

\* C7, as claimed: what a consumer hands on is sorted descending by score, is no
\* longer than the requested limit, and holds only scores at or above the threshold.
C7_SortedWithinLimit ==
    pipePc = "handed" =>
      /\ SortedDesc(handed)
      /\ Len(handed) <= Max(0, reqLimit)
      /\ \A i \in DOMAIN handed : handed[i].score >= SCORE_THRESHOLD * 100

\* C7, amended: sorted descending, only scores at or above the threshold, and a
\* prefix of the ranked list of length at most 1 for memescanner, at most
\* max(1, n) for !top n, at most limit for /candidates with limit >= 0, and all but
\* the last -limit candidates for /candidates with limit < 0.
C7_SortedWithinEffectiveLimit ==
    pipePc = "handed" =>
      /\ SortedDesc(handed)
      /\ \A i \in DOMAIN handed : handed[i].score >= SCORE_THRESHOLD * 100
      /\ Len(handed) <= Len(pipeOut)
      /\ \A i \in DOMAIN handed : handed[i] = pipeOut[i]
      /\ consumer = "memescanner" => Len(handed) <= 1
      /\ consumer = "top" => Len(handed) <= (IF reqLimit >= 1 THEN reqLimit ELSE 1)
      /\ (consumer = "candidates" /\ reqLimit >= 0) => Len(handed) <= reqLimit
      /\ (consumer = "candidates" /\ reqLimit < 0)
            => Len(handed) = (IF Len(pipeOut) + reqLimit >= 0
                              THEN Len(pipeOut) + reqLimit ELSE 0)

\* C7 witness: !top 2 handed on two candidates that the sort had to swap
C7_TwoRankedHanded ==
    /\ pipePc = "handed"
    /\ consumer = "top"
    /\ Len(handed) = 2
    /\ handed[1].score > handed[2].score
    /\ rawPairs[1].mint = handed[2].mint

\* An explicit negative signal: the oracle answered 200 with an object whose
\* verdict is a string in which, case ignored, one of the three words occurs
ExplicitNegative(resp) ==
    /\ resp.transport = "ok"
    /\ resp.status = 200
    /\ resp.body = "object"
    /\ resp.verdict.t = "str"
    /\ \E w \in {S_honeypot, S_malicious, S_scam} :
         \E at \in 1..Len(resp.verdict.v) :
            \A n \in 1..Len(w) :
               /\ at + n - 1 <= Len(resp.verdict.v)
               /\ LowerChar(resp.verdict.v[at + n - 1]) = w[n]

\* C8: rugcheck_ok raises nothing and returns false exactly for an explicit
\* negative signal; every other outcome of the oracle gives true.
C8_FailOpen ==
    rugOut \notin {"pending", "idle"} =>
      /\ rugOut \in {"True", "False"}
      /\ rugOut = "False" <=> ExplicitNegative(rugResp)

\* C8 witness: the oracle answered 200 with a verdict that is no string, and
\* rugcheck_ok returned true
C8_NonStringVerdictPasses ==
    /\ rugOut = "True"
    /\ rugResp.status = 200
    /\ rugResp.body = "object"
    /\ rugResp.verdict.t = "number"

\* C9, as claimed: whatever the provider answers, dex_query returns a list and
\* fetch_candidate_pairs does not raise.
C9_FailureNotPropagated ==
    /\ fetchPc # "raised"
    /\ returned \in {"none", "list"}

\* Retained records that came from the keyword queries
SpecificCount == Cardinality({ i \in DOMAIN pairs : pairs[i].src <= KeywordCap })

\* C10: the fallback query is issued only after all KeywordCap keyword queries, and
\* only when they retained fewer than MinPairs records.
C10_FallbackOnlyWhenShort ==
    /\ \A n \in DOMAIN calls :
         calls[n] = "fallback" =>
            (n = KeywordCap + 1 /\ \A m \in 1..(n - 1) : calls[m] = "keyword")
    /\ (\E n \in DOMAIN calls : calls[n] = "fallback")
          => (SpecificCount < MinPairs /\ lenAtCheck = SpecificCount)
    /\ Len(calls) <= KeywordCap + 1

\* C10 witness: the keyword queries retained MinPairs records or more and fetch
\* finished without a fallback call
C10_EnoughNoFallback ==
    /\ fetchPc = "done"
    /\ Len(pairs) >= MinPairs
    /\ Len(calls) = KeywordCap
    /\ \A n \in DOMAIN calls : calls[n] = "keyword"

====
